---- MODULE Spec2Model ----
(***************************************************************************)
(* A model of prow: the batch orchestrator batch_prow_analyse_authorities  *)
(* (src/prow/__init__.py) and the acquisition pipeline it drives           *)
(* (src/prow/download_data.py), over an abstract disk and an environment   *)
(* (network, external tools, process termination) that answers             *)
(* nondeterministically.                                                   *)
(***************************************************************************)
EXTENDS Integers, Sequences, FiniteSets, TLC

(* ------------------------------ bounds -------------------------------- *)

\* Most GPX files under the extraction path, and most points in one file.
MaxFiles == 2
MaxRows == 2

\* Longest batch list passed to batch_prow_analyse_authorities.
MaxEntries == 2
\* Number of tiles get_graph_boundary returns for an authority.
NumTiles == 2
\* Number of times the batch is started on the same disk.
MaxRuns == 2

(* ----------------------------- the inputs ----------------------------- *)

\* Authority names a caller may pass; "Atlantis" is not in the code table.
Authorities == {"Kent", "Surrey", "Atlantis"}
Regions == {"england", "wales"}

\* utils.authority_names: the static name -> code table.
authority_names == [Kent |-> "KT", Surrey |-> "SY"]
Codes == {authority_names[a] : a \in DOMAIN authority_names}

\* reverse_search(name): the code of a name; NotFound for a name outside the table.
reverse_search(a) == IF a \in DOMAIN authority_names THEN authority_names[a] ELSE "NotFound"

\* The [authority, region] pairs a batch list is built from.
EntryPairs == [authority : Authorities, region : Regions]
Batches == UNION {[1..n -> EntryPairs] : n \in 0..MaxEntries}

Tiles == 0..(NumTiles - 1)

\* What OSM holds for a tile, the same at every query: a tile either has ways of
\* the wanted highway types, or has none and ox.graph_from_polygon raises
\* ValueError for it. Tiles with and without ways alternate along a boundary;
\* the first tile of KT has none, the first tile of SY has some.
osm_ways(code, i) ==
    IF i % 2 = (IF code = "KT" THEN 0 ELSE 1) THEN "ValueError" ELSE "ways"

(* ------------------------------ the state ----------------------------- *)

VARIABLES
    authorities,  \* the batch list: a sequence of [authority, region]
    idx,          \* position of the for loop of the orchestrator (1-based)
    pc,           \* the statement the process is at
    tile,         \* loop index i of download_graphs
    row_response, \* local of download_row_data: the HTTP response
    G,            \* local of download_graphs: the graph of the current tile
    graph_boundary, \* local of the orchestrator: number of tiles returned
    disk,         \* the files under data/ and output/
    trace,        \* stage calls of the current run, in call order
    net,          \* network requests issued in the current run, by kind
    toolFailed,   \* a curl or tar step of the current public-GPS call failed
    answer,       \* what the OSM query of each tile of the current call gave
    error,        \* the exception that ended the run, "none" while there is none
    runs,         \* number of batch runs started so far
    gps_pc,       \* the statement of the conversion loop of download_public_gps_data
    gpx_points,   \* the points of each GPX file found, in enumeration order
    frames,       \* local of download_public_gps_data: the tables collected
    all_gps_raw_df, \* local of download_public_gps_data: the table written
    prefix,       \* the authority code two concurrent invocations are called with
    inv           \* the position and locals of each concurrent invocation

vars == <<authorities, idx, pc, tile, row_response, G, graph_boundary, disk,
          trace, net, toolFailed, answer, error, runs,
          gps_pc, gpx_points, frames, all_gps_raw_df, prefix, inv>>

\* The state of the conversion loop, followed row by row under SpecGps.
gps == <<gps_pc, gpx_points, frames, all_gps_raw_df>>

\* The state of two invocations run side by side, followed under SpecConc.
conc == <<prefix, inv>>

\* The two invocations of one acquisition operation.
Procs == {"first", "second"}

NoResponse == [status |-> 0, content |-> "none"]
NoNet == [get |-> 0, curl |-> 0, geocode |-> 0, osm |-> 0]
NoAnswer == [i \in Tiles |-> "none"]
NoInvocation == [p \in Procs |-> [pc |-> "idle", tile |-> 0, response |-> NoResponse, G |-> "none"]]

EmptyDisk ==
    [ rowcsv  |-> [c \in Codes |-> "absent"],
      rowgpx  |-> [c \in Codes |-> "absent"],
      pubcsv  |-> [r \in Regions |-> [st |-> "absent", from |-> {}]],
      tarxz   |-> [r \in Regions |-> "absent"],
      planet  |-> {},
      graphml |-> [c \in Codes |-> [i \in Tiles |-> "absent"]],
      output  |-> [c \in Codes |-> FALSE] ]

\* The disk a first run may find: no data downloaded yet; the output folder may
\* hold the classified graphs of authorities analysed before.
InitialDisks == {[EmptyDisk EXCEPT !.output = o] : o \in [Codes -> BOOLEAN]}

\* isfile, as it would be if the check also asked for a complete file.
isfile_complete(content) == content \notin {"absent", "partial"}

\* os.path.isfile: any file at the path counts, whatever it holds.
isfile(content) == content # "absent"

authority == authorities[idx].authority
region == authorities[idx].region
authority_code == reverse_search(authority)

Init ==
    /\ authorities \in Batches
    /\ idx = 1
    /\ pc = "loop"
    /\ tile = 0
    /\ row_response = NoResponse
    /\ G = "none"
    /\ graph_boundary = 0
    /\ disk \in InitialDisks
    /\ trace = <<>>
    /\ net = NoNet
    /\ toolFailed = FALSE
    /\ answer = NoAnswer
    /\ error = "none"
    /\ runs = 1
    /\ gps_pc = "idle"
    /\ gpx_points = <<>>
    /\ frames = <<>>
    /\ all_gps_raw_df = <<>>
    /\ prefix = "none"
    /\ inv = NoInvocation

(* --------------------------- control helpers -------------------------- *)

locals == <<tile, row_response, G, graph_boundary>>

Running == pc \notin {"done", "failed", "killed"}

\* A stage function is called: the call is recorded and its first statement is next.
Call(stage, first) ==
    /\ pc' = first
    /\ trace' = Append(trace, <<idx, stage>>)
    /\ toolFailed' = FALSE
    /\ idx' = idx
    /\ error' = error

\* Raise, as it would be with the loop body wrapped in a try/except that goes
\* on to the next entry.
RaiseCaught(e) ==
    /\ pc' = "loop"
    /\ idx' = idx + 1
    /\ error' = e
    /\ UNCHANGED <<trace, toolFailed>>

\* An exception leaves the current function. Nothing in the orchestrator or in
\* the acquisition functions catches it, so it ends the for loop and the run.
Raise(e) ==
    /\ pc' = "failed"
    /\ error' = e
    /\ UNCHANGED <<idx, trace, toolFailed>>

\* The next statement of the same function.
Goto(next) ==
    /\ pc' = next
    /\ UNCHANGED <<idx, trace, toolFailed, error>>

\* analysis.check_analysis_exists(fn_out): the output artifacts exist at the prefix.
check_analysis_exists(code) == disk.output[code]

(* --------------------- batch_prow_analyse_authorities ----------------- *)

\* LoopHead, as it would be without the test for existing output.
LoopHeadNoCheck ==
    /\ pc = "loop"
    /\ IF idx > Len(authorities)
         THEN Goto("done")
         ELSE IF authority_code = "NotFound"
           THEN Raise("NotFound")
           ELSE Call("row", "row_check")
    /\ UNCHANGED <<conc, gps, authorities, locals, disk, net, answer, runs>>

\* The head of the for loop: resolve the code, build the prefixes, test for
\* existing output, and call the first stage.
LoopHead ==
    /\ pc = "loop"
    /\ IF idx > Len(authorities)
         THEN Goto("done")
         ELSE IF authority_code = "NotFound"
           THEN Raise("NotFound")
           ELSE IF check_analysis_exists(authority_code)
             THEN idx' = idx + 1 /\ UNCHANGED <<pc, trace, toolFailed, error>>
             ELSE Call("row", "row_check")
    /\ UNCHANGED <<conc, gps, authorities, locals, disk, net, answer, runs>>

(* ---------------------------- download_row_data ----------------------- *)

\* RowCheck, as it would be if the function opened its csv for writing before
\* it started the download.
RowCheckOpensTarget ==
    /\ pc = "row_check"
    /\ IF isfile(disk.rowcsv[authority_code])
         THEN disk' = disk /\ Call("public", "pub_check")
         ELSE /\ disk' = [disk EXCEPT !.rowcsv[authority_code] = "partial"]
              /\ Goto("row_get")
    /\ UNCHANGED <<conc, gps, authorities, locals, net, answer, runs>>

RowCheck ==
    /\ pc = "row_check"
    /\ IF isfile(disk.rowcsv[authority_code])
         THEN Call("public", "pub_check")
         ELSE Goto("row_get")
    /\ UNCHANGED <<conc, gps, authorities, locals, disk, net, answer, runs>>

\* requests.get: a connection error raises; any HTTP response is returned,
\* whatever its status.
RowGet ==
    /\ pc = "row_get"
    /\ net' = [net EXCEPT !.get = @ + 1]
    /\ \/ Raise("ConnectionError") /\ UNCHANGED row_response
       \/ \E s \in {200, 404}, b \in {"gpx", "junk"} :
            /\ row_response' = [status |-> s, content |-> b]
            /\ Goto("row_save")
    /\ UNCHANGED <<conc, gps, authorities, tile, G, graph_boundary, disk, answer, runs>>

RowSave ==
    /\ pc = "row_save"
    /\ disk' = [disk EXCEPT !.rowgpx[authority_code] = row_response.content]
    /\ Goto("row_convert")
    /\ UNCHANGED <<conc, gps, authorities, locals, net, answer, runs>>

\* gpx_converter.Converter(input_file): parsing fails on a file that is not
\* well-formed GPX.
gpx_parses(content) == content = "gpx"

\* gpx_to_dataframe, then batch_geo_interpolate_df.
RowConvert ==
    /\ pc = "row_convert"
    /\ IF gpx_parses(disk.rowgpx[authority_code])
         THEN Goto("row_write")
         ELSE Raise("GPXException")
    /\ UNCHANGED <<conc, gps, authorities, locals, disk, net, answer, runs>>

\* row_df.to_csv opens the target and writes it through.
RowWrite ==
    /\ pc = "row_write"
    /\ disk' = [disk EXCEPT !.rowcsv[authority_code] = "partial"]
    /\ Goto("row_writing")
    /\ UNCHANGED <<conc, gps, authorities, locals, net, answer, runs>>

\* RowWriting, as it would be with stages 2 and 3 of the orchestrator swapped.
RowWritingThenBoundary ==
    /\ pc = "row_writing"
    /\ disk' = [disk EXCEPT !.rowcsv[authority_code] = "complete"]
    /\ row_response' = NoResponse
    /\ Call("boundary", "boundary")
    /\ UNCHANGED <<conc, gps, authorities, tile, G, graph_boundary, net, answer, runs>>

RowWriting ==
    /\ pc = "row_writing"
    /\ disk' = [disk EXCEPT !.rowcsv[authority_code] = "complete"]
    /\ row_response' = NoResponse
    /\ Call("public", "pub_check")
    /\ UNCHANGED <<conc, gps, authorities, tile, G, graph_boundary, net, answer, runs>>

(* ------------------------ download_public_gps_data -------------------- *)

\* PubCheck, as it would be without the test for an existing csv.
PubCheckNoSkip ==
    /\ pc = "pub_check"
    /\ Goto("pub_curl")
    /\ UNCHANGED <<conc, gps, authorities, locals, disk, net, answer, runs>>

PubCheck ==
    /\ pc = "pub_check"
    /\ IF isfile(disk.pubcsv[region].st)
         THEN Call("boundary", "boundary")
         ELSE Goto("pub_curl")
    /\ UNCHANGED <<conc, gps, authorities, locals, disk, net, answer, runs>>

\* os.system("curl -o fn.tar.xz ..."): the exit status is dropped. The download
\* delivers the archive, or fails leaving no new file, or leaves a file that is
\* no archive (a cut transfer, an error page).
PubCurl ==
    /\ pc = "pub_curl"
    /\ net' = [net EXCEPT !.curl = @ + 1]
    /\ pc' = "pub_tar"
    /\ \/ /\ disk' = [disk EXCEPT !.tarxz[region] = "archive"]
          /\ UNCHANGED toolFailed
       \/ /\ toolFailed' = TRUE
          /\ \/ UNCHANGED disk
             \/ disk' = [disk EXCEPT !.tarxz[region] = "junk"]
    /\ UNCHANGED <<conc, gps, authorities, idx, trace, locals, answer, error, runs>>

\* os.system("tar -xvf fn.tar.xz -C dirname(fn)"): the exit status is dropped.
\* A good archive unpacks its GPX files under data/public/gpx-planet-2013-04-09;
\* a missing or broken archive, or a failing extraction, unpacks nothing.
PubTar ==
    /\ pc = "pub_tar"
    /\ pc' = "pub_rm"
    /\ \/ /\ disk.tarxz[region] = "archive"
          /\ disk' = [disk EXCEPT !.planet = @ \cup {region}]
          /\ UNCHANGED toolFailed
       \/ /\ toolFailed' = TRUE
          /\ UNCHANGED disk
    /\ UNCHANGED <<conc, gps, authorities, idx, trace, locals, net, answer, error, runs>>

\* os.system("rm fn.tar.xz")
PubRm ==
    /\ pc = "pub_rm"
    /\ disk' = [disk EXCEPT !.tarxz[region] = "absent"]
    /\ Goto("pub_convert")
    /\ UNCHANGED <<conc, gps, authorities, locals, net, answer, runs>>

\* The files found under the fixed extraction path, each converted and
\* filtered; pd.concat raises ValueError on an empty list of frames.
PubConvert ==
    /\ pc = "pub_convert"
    /\ IF disk.planet = {}
         THEN Raise("ValueError")
         ELSE Goto("pub_write")
    /\ UNCHANGED <<conc, gps, authorities, locals, disk, net, answer, runs>>

\* all_gps_raw_df.to_csv opens the target and writes it through. The table
\* holds the points of every region whose files lie under the extraction path.
PubWrite ==
    /\ pc = "pub_write"
    /\ disk' = [disk EXCEPT !.pubcsv[region] = [st |-> "partial", from |-> disk.planet]]
    /\ Goto("pub_writing")
    /\ UNCHANGED <<conc, gps, authorities, locals, net, answer, runs>>

PubWriting ==
    /\ pc = "pub_writing"
    /\ disk' = [disk EXCEPT !.pubcsv[region].st = "complete"]
    /\ Call("boundary", "boundary")
    /\ UNCHANGED <<conc, gps, authorities, locals, net, answer, runs>>

(* --------------------------- get_graph_boundary ----------------------- *)

\* GetGraphBoundary, as it would be if the tiling were taken from the graph
\* cache when the first tile file is there.
GetGraphBoundaryCached ==
    /\ pc = "boundary"
    /\ IF isfile(disk.graphml[authority_code][0])
         THEN net' = net /\ graph_boundary' = NumTiles /\ Call("graphs", "graph_check")
         ELSE /\ net' = [net EXCEPT !.geocode = @ + 1]
              /\ \/ Raise("GeocodeError") /\ UNCHANGED graph_boundary
                 \/ graph_boundary' = NumTiles /\ Call("graphs", "graph_check")
    /\ UNCHANGED <<conc, gps, authorities, tile, row_response, G, disk, answer, runs>>

\* ox.geocode_to_gdf queries the geocoder on every call; the geometry is cut
\* into tiles and returned. Nothing is read from or written to the disk.
GetGraphBoundary ==
    /\ pc = "boundary"
    /\ net' = [net EXCEPT !.geocode = @ + 1]
    /\ \/ Raise("GeocodeError") /\ UNCHANGED graph_boundary
       \/ graph_boundary' = NumTiles /\ Call("graphs", "graph_check")
    /\ UNCHANGED <<conc, gps, authorities, tile, row_response, G, disk, answer, runs>>

(* ----------------------------- download_graphs ------------------------ *)

\* GraphCheck, as it would be without the test for an existing tile file.
GraphCheckNoSkip ==
    /\ pc = "graph_check"
    /\ IF tile >= graph_boundary
         THEN tile' = 0 /\ answer' = NoAnswer /\ Call("analysis", "analysis")
         ELSE tile' = tile /\ Goto("graph_query") /\ UNCHANGED answer
    /\ UNCHANGED <<conc, gps, authorities, row_response, G, graph_boundary, disk, net, runs>>

\* GraphCheck, as it would be if the file of the first tile stood for the whole
\* set: the call returns at once when it is there.
GraphCheckFirstTile ==
    /\ pc = "graph_check"
    /\ IF tile >= graph_boundary \/ isfile(disk.graphml[authority_code][0])
         THEN tile' = 0 /\ answer' = NoAnswer /\ Call("analysis", "analysis")
         ELSE tile' = tile /\ Goto("graph_query") /\ UNCHANGED answer
    /\ UNCHANGED <<conc, gps, authorities, row_response, G, graph_boundary, disk, net, runs>>

\* The head of the tile loop: leave the loop after the last tile, skip a tile
\* whose file exists, else query it.
GraphCheck ==
    /\ pc = "graph_check"
    /\ IF tile >= graph_boundary
         THEN tile' = 0 /\ answer' = NoAnswer /\ Call("analysis", "analysis")
         ELSE IF isfile(disk.graphml[authority_code][tile])
           THEN tile' = tile + 1 /\ Goto("graph_check") /\ UNCHANGED answer
           ELSE tile' = tile /\ Goto("graph_query") /\ UNCHANGED answer
    /\ UNCHANGED <<conc, gps, authorities, row_response, G, graph_boundary, disk, net, runs>>

\* GraphQuery, as it would be without the except clause.
GraphQueryNoExcept ==
    /\ pc = "graph_query"
    /\ net' = [net EXCEPT !.osm = @ + 1]
    /\ \E r \in {osm_ways(authority_code, tile), "OsmError"} :
          /\ answer' = [answer EXCEPT ![tile] = r]
          /\ CASE r = "ways" -> G' = "graph" /\ Goto("graph_save")
               [] OTHER      -> Raise(r) /\ UNCHANGED G
    /\ UNCHANGED <<conc, gps, authorities, tile, row_response, graph_boundary, disk, runs>>

\* ox.graph_from_polygon: a graph of the matching ways; a ValueError (no
\* matching ways in the tile) is caught and replaced by an empty MultiGraph;
\* any other error (the query itself failing) propagates.
GraphQuery ==
    /\ pc = "graph_query"
    /\ net' = [net EXCEPT !.osm = @ + 1]
    /\ \E r \in {osm_ways(authority_code, tile), "OsmError"} :
          /\ answer' = [answer EXCEPT ![tile] = r]
          /\ CASE r = "ways"       -> G' = "graph" /\ Goto("graph_save")
               [] r = "ValueError" -> G' = "empty" /\ Goto("graph_save")
               [] OTHER            -> Raise(r) /\ UNCHANGED G
    /\ UNCHANGED <<conc, gps, authorities, tile, row_response, graph_boundary, disk, runs>>

\* ox.save_graphml opens the target and writes it through.
GraphSave ==
    /\ pc = "graph_save"
    /\ disk' = [disk EXCEPT !.graphml[authority_code][tile] = "partial"]
    /\ Goto("graph_saving")
    /\ UNCHANGED <<conc, gps, authorities, locals, net, answer, runs>>

GraphSaving ==
    /\ pc = "graph_saving"
    /\ disk' = [disk EXCEPT !.graphml[authority_code][tile] = G]
    /\ G' = "none"
    /\ tile' = tile + 1
    /\ Goto("graph_check")
    /\ UNCHANGED <<conc, gps, authorities, row_response, graph_boundary, net, answer, runs>>

(* --------------------------- analysis.analyse_batch ------------------- *)

\* analysis.analyse_batch(..., out_fn): the classified graphs are written at
\* the output prefix.
analyse_batch(d, code) == [d EXCEPT !.output[code] = TRUE]

\* The last stage of the loop body: the analysis engine writes its output, or
\* fails; then the for loop takes the next entry.
AnalyseBatch ==
    /\ pc = "analysis"
    /\ \/ Raise("AnalysisError") /\ UNCHANGED <<disk, graph_boundary>>
       \/ /\ disk' = analyse_batch(disk, authority_code)
          /\ graph_boundary' = 0
          /\ idx' = idx + 1
          /\ pc' = "loop"
          /\ UNCHANGED <<trace, toolFailed, error>>
    /\ UNCHANGED <<conc, gps, authorities, tile, row_response, G, net, answer, runs>>

(* ------------------------------ environment --------------------------- *)

\* The process is terminated from outside, at any statement: its memory is
\* gone, the disk stays as it is.
Kill ==
    /\ Running
    /\ pc' = "killed"
    /\ idx' = 1
    /\ tile' = 0
    /\ row_response' = NoResponse
    /\ G' = "none"
    /\ graph_boundary' = 0
    /\ trace' = <<>>
    /\ net' = NoNet
    /\ toolFailed' = FALSE
    /\ answer' = NoAnswer
    /\ error' = "none"
    /\ UNCHANGED <<conc, gps, authorities, disk, runs>>

\* The same batch is started again on the disk the earlier run left behind.
Restart ==
    /\ ~Running
    /\ runs < MaxRuns
    /\ runs' = runs + 1
    /\ idx' = 1
    /\ pc' = "loop"
    /\ tile' = 0
    /\ row_response' = NoResponse
    /\ G' = "none"
    /\ graph_boundary' = 0
    /\ trace' = <<>>
    /\ net' = NoNet
    /\ toolFailed' = FALSE
    /\ answer' = NoAnswer
    /\ error' = "none"
    /\ UNCHANGED <<conc, gps, authorities, disk>>

Next ==
    \/ LoopHead
    \/ RowCheck \/ RowGet \/ RowSave \/ RowConvert \/ RowWrite \/ RowWriting
    \/ PubCheck \/ PubCurl \/ PubTar \/ PubRm \/ PubConvert \/ PubWrite \/ PubWriting
    \/ GetGraphBoundary
    \/ GraphCheck \/ GraphQuery \/ GraphSave \/ GraphSaving
    \/ AnalyseBatch
    \/ Kill
    \/ Restart

Spec == Init /\ [][Next]_vars

TypeOK ==
    /\ idx \in 1..(MaxEntries + 1)
    /\ tile \in 0..NumTiles
    /\ runs \in 1..MaxRuns
    /\ G \in {"none", "graph", "empty"}
    /\ disk.planet \subseteq Regions
    /\ \A c \in Codes : disk.rowcsv[c] \in {"absent", "partial", "complete"}
    /\ \A c \in Codes : disk.rowgpx[c] \in {"absent", "gpx", "junk"}
    /\ \A r \in Regions : disk.tarxz[r] \in {"absent", "archive", "junk"}
    /\ \A r \in Regions : disk.pubcsv[r].st \in {"absent", "partial", "complete"}
    /\ \A c \in Codes, i \in Tiles :
          disk.graphml[c][i] \in {"absent", "partial", "graph", "empty"}

(* ------------- download_public_gps_data: the conversion loop ---------- *)

\* Latitudes and longitudes of the points of a GPX file.
Coords == {0, 1}
Points == [latitude : Coords, longitude : Coords]
PointLists == UNION {[1..n -> Points] : n \in 0..MaxRows}
FileLists == UNION {[1..n -> PointLists] : n \in 0..MaxFiles}

\* gpx_converter.Converter(input_file).gpx_to_dataframe(i): one row per point,
\* in file order, with its coordinates, the track identifier offset by i, and
\* the other GPX fields.
gpx_to_dataframe(points, i) ==
    [k \in 1..Len(points) |->
        [latitude |-> points[k].latitude, longitude |-> points[k].longitude,
         trackid |-> i, altitude |-> 0]]

\* df[["latitude", "longitude", "trackid"]]
SelectColumns(df) ==
    [k \in 1..Len(df) |->
        [latitude |-> df[k].latitude, longitude |-> df[k].longitude,
         trackid |-> df[k].trackid]]

\* df.loc[(df[["latitude", "longitude"]] != 0).all(axis=1), :] keeps the rows
\* in which every one of the two columns is non-zero.
FilterZero(df) ==
    SelectSeq(df, LAMBDA r : r.latitude # 0 /\ r.longitude # 0)

RECURSIVE concat(_)
\* pd.concat(frames, ignore_index=True)
concat(fs) == IF fs = <<>> THEN <<>> ELSE Head(fs) \o concat(Tail(fs))

InitGps ==
    /\ authorities = <<>>
    /\ idx = 1
    /\ pc = "pub_convert"
    /\ tile = 0
    /\ row_response = NoResponse
    /\ G = "none"
    /\ graph_boundary = 0
    /\ disk = EmptyDisk
    /\ trace = <<>>
    /\ net = NoNet
    /\ toolFailed = FALSE
    /\ answer = NoAnswer
    /\ error = "none"
    /\ runs = 1
    /\ gps_pc = "loop"
    /\ gpx_points \in FileLists
    /\ frames = <<>>
    /\ all_gps_raw_df = <<>>
    /\ prefix = "none"
    /\ inv = NoInvocation

main == <<authorities, idx, pc, tile, row_response, G, graph_boundary, disk,
          trace, net, toolFailed, answer, runs>>

\* One pass of the for loop over all_gps_paths.
GpsLoopBody ==
    /\ gps_pc = "loop"
    /\ Len(frames) < Len(gpx_points)
    /\ LET i == Len(frames)
           df == gpx_to_dataframe(gpx_points[i + 1], i)
       IN  frames' = Append(frames, FilterZero(SelectColumns(df)))
    /\ UNCHANGED <<conc, main, error, gps_pc, gpx_points, all_gps_raw_df>>

\* After the loop: pd.concat raises ValueError on no frames; else the table is
\* written by to_csv.
GpsConcat ==
    /\ gps_pc = "loop"
    /\ Len(frames) = Len(gpx_points)
    /\ IF frames = <<>>
         THEN gps_pc' = "failed" /\ error' = "ValueError" /\ UNCHANGED all_gps_raw_df
         ELSE gps_pc' = "written" /\ all_gps_raw_df' = concat(frames) /\ UNCHANGED error
    /\ UNCHANGED <<conc, main, gpx_points, frames>>

NextGps == GpsLoopBody \/ GpsConcat

SpecGps == InitGps /\ [][NextGps]_vars

(* ------------- two invocations of one operation, side by side --------- *)

\* The orchestrator's own state, at rest while the two invocations run.
batch == <<authorities, idx, pc, tile, row_response, G, graph_boundary,
           trace, toolFailed, answer, error, runs>>

\* Both invocations are called with the same prefix, for the same operation:
\* download_row_data, or download_graphs on the tiles of the prefix.
InitConc ==
    /\ authorities = <<>>
    /\ idx = 1
    /\ pc = "done"
    /\ tile = 0
    /\ row_response = NoResponse
    /\ G = "none"
    /\ graph_boundary = 0
    /\ disk = EmptyDisk
    /\ trace = <<>>
    /\ net = NoNet
    /\ toolFailed = FALSE
    /\ answer = NoAnswer
    /\ error = "none"
    /\ runs = 1
    /\ gps_pc = "idle"
    /\ gpx_points = <<>>
    /\ frames = <<>>
    /\ all_gps_raw_df = <<>>
    /\ prefix \in Codes
    /\ \E first \in {"row_check", "graph_check"} :
          inv = [p \in Procs |-> [NoInvocation[p] EXCEPT !.pc = first]]

\* Invocation p moves to statement next; its locals stay.
Move(p, next) == inv' = [inv EXCEPT ![p].pc = next]

\* Another invocation is at one of the statements of body.
OtherIn(p, body) == \E q \in Procs \ {p} : inv[q].pc \in body

\* What a write that p finishes leaves in the file: its own content, or, when
\* another invocation has the same file open for writing, possibly a mix of
\* the two writes.
Written(p, own, writers) ==
    IF \E q \in Procs \ {p} : inv[q].pc \in writers /\ inv[q].tile = inv[p].tile
      THEN {own, "partial"}
      ELSE {own}

\* CRowCheck, as it would be if the check also took the target for its caller
\* and turned away an invocation finding another one at work on it.
CRowCheckExclusive(p) ==
    /\ inv[p].pc = "row_check"
    /\ IF \/ isfile(disk.rowcsv[prefix])
          \/ OtherIn(p, {"row_get", "row_save", "row_convert", "row_write", "row_writing"})
         THEN Move(p, "returned")
         ELSE Move(p, "row_get")
    /\ UNCHANGED <<batch, gps, prefix, disk, net>>

\* download_row_data, line 62: the check reads the disk and nothing else.
CRowCheck(p) ==
    /\ inv[p].pc = "row_check"
    /\ IF isfile(disk.rowcsv[prefix])
         THEN Move(p, "returned")
         ELSE Move(p, "row_get")
    /\ UNCHANGED <<batch, gps, prefix, disk, net>>

CRowGet(p) ==
    /\ inv[p].pc = "row_get"
    /\ net' = [net EXCEPT !.get = @ + 1]
    /\ \/ Move(p, "failed")
       \/ \E s \in {200, 404}, b \in {"gpx", "junk"} :
            inv' = [inv EXCEPT ![p].pc = "row_save",
                               ![p].response = [status |-> s, content |-> b]]
    /\ UNCHANGED <<batch, gps, prefix, disk>>

CRowSave(p) ==
    /\ inv[p].pc = "row_save"
    /\ disk' = [disk EXCEPT !.rowgpx[prefix] = inv[p].response.content]
    /\ Move(p, "row_convert")
    /\ UNCHANGED <<batch, gps, prefix, net>>

\* The converter reads the .gpx file, whoever wrote it last.
CRowConvert(p) ==
    /\ inv[p].pc = "row_convert"
    /\ IF gpx_parses(disk.rowgpx[prefix])
         THEN Move(p, "row_write")
         ELSE Move(p, "failed")
    /\ UNCHANGED <<batch, gps, prefix, disk, net>>

CRowWrite(p) ==
    /\ inv[p].pc = "row_write"
    /\ disk' = [disk EXCEPT !.rowcsv[prefix] = "partial"]
    /\ Move(p, "row_writing")
    /\ UNCHANGED <<batch, gps, prefix, net>>

CRowWriting(p) ==
    /\ inv[p].pc = "row_writing"
    /\ \E c \in Written(p, "complete", {"row_writing"}) :
          disk' = [disk EXCEPT !.rowcsv[prefix] = c]
    /\ inv' = [inv EXCEPT ![p].pc = "returned", ![p].response = NoResponse]
    /\ UNCHANGED <<batch, gps, prefix, net>>

\* download_graphs, lines 134-137: the loop head and the check of one tile.
CGraphCheck(p) ==
    /\ inv[p].pc = "graph_check"
    /\ IF inv[p].tile >= NumTiles
         THEN inv' = [inv EXCEPT ![p].pc = "returned", ![p].tile = 0]
         ELSE IF isfile(disk.graphml[prefix][inv[p].tile])
           THEN inv' = [inv EXCEPT ![p].tile = @ + 1]
           ELSE Move(p, "graph_query")
    /\ UNCHANGED <<batch, gps, prefix, disk, net>>

CGraphQuery(p) ==
    /\ inv[p].pc = "graph_query"
    /\ net' = [net EXCEPT !.osm = @ + 1]
    /\ \E r \in {osm_ways(prefix, inv[p].tile), "OsmError"} :
          CASE r = "ways"       -> inv' = [inv EXCEPT ![p].pc = "graph_save", ![p].G = "graph"]
            [] r = "ValueError" -> inv' = [inv EXCEPT ![p].pc = "graph_save", ![p].G = "empty"]
            [] OTHER            -> Move(p, "failed")
    /\ UNCHANGED <<batch, gps, prefix, disk>>

CGraphSave(p) ==
    /\ inv[p].pc = "graph_save"
    /\ disk' = [disk EXCEPT !.graphml[prefix][inv[p].tile] = "partial"]
    /\ Move(p, "graph_saving")
    /\ UNCHANGED <<batch, gps, prefix, net>>

CGraphSaving(p) ==
    /\ inv[p].pc = "graph_saving"
    /\ \E c \in Written(p, inv[p].G, {"graph_saving"}) :
          disk' = [disk EXCEPT !.graphml[prefix][inv[p].tile] = c]
    /\ inv' = [inv EXCEPT ![p].pc = "graph_check", ![p].G = "none", ![p].tile = @ + 1]
    /\ UNCHANGED <<batch, gps, prefix, net>>

\* The scheduler runs any invocation that has a statement left.
NextConc ==
    \E p \in Procs :
        \/ CRowCheck(p)
        \/ CRowGet(p)
        \/ CRowSave(p)
        \/ CRowConvert(p)
        \/ CRowWrite(p)
        \/ CRowWriting(p)
        \/ CGraphCheck(p)
        \/ CGraphQuery(p)
        \/ CGraphSave(p)
        \/ CGraphSaving(p)

SpecConc == InitConc /\ [][NextConc]_vars

(* ------------------------------- claims ------------------------------- *)

Killed == pc = "killed"

\* C1: when download_row_data, download_public_gps_data or a tile of
\* download_graphs finds its target file on the disk, its one step is the return
\* (the next tile, for a tile): no network request is issued and no file of the
\* disk changes.
C1_SkipOnExistingTarget ==
    [][ /\ ( pc = "row_check" /\ disk.rowcsv[authority_code] # "absent" )
            => ( disk' = disk /\ ( Killed' \/ (net' = net /\ pc' = "pub_check") ) )
        /\ ( pc = "pub_check" /\ disk.pubcsv[region].st # "absent" )
            => ( disk' = disk /\ ( Killed' \/ (net' = net /\ pc' = "boundary") ) )
        /\ ( pc = "graph_check" /\ tile < graph_boundary
                                /\ disk.graphml[authority_code][tile] # "absent" )
            => ( disk' = disk /\ ( Killed' \/ ( /\ net' = net
                                                /\ pc' = "graph_check"
                                                /\ tile' = tile + 1 ) ) )
      ]_vars

\* C1 witness: a later run has gone through the RoW, public-GPS and graph
\* stages of an entry with every target in place, and issued no request for them.
C1_Witness ==
    /\ pc = "analysis"
    /\ runs > 1
    /\ net.get = 0 /\ net.curl = 0 /\ net.osm = 0
    /\ Len(trace) = 5

\* C2: at the head of the loop, an entry whose output exists is passed over:
\* no stage is called, nothing is requested, the disk is untouched, and the loop
\* is at the next entry, whatever the data caches hold.
C2_SkipOnExistingOutput ==
    [][ ( /\ pc = "loop"
          /\ idx <= Len(authorities)
          /\ authority_code # "NotFound"
          /\ disk.output[authority_code] )
        => ( /\ disk' = disk
             /\ Killed' \/ ( /\ trace' = trace
                             /\ net' = net
                             /\ pc' = "loop"
                             /\ idx' = idx + 1 ) )
      ]_vars

\* C2 witness: the first entry was passed over with none of its caches on disk.
C2_Witness ==
    /\ pc = "loop"
    /\ idx = 2
    /\ trace = <<>>
    /\ net = NoNet
    /\ disk.output[reverse_search(authorities[1].authority)]
    /\ disk.rowcsv[reverse_search(authorities[1].authority)] = "absent"
    /\ \A i \in Tiles : disk.graphml[reverse_search(authorities[1].authority)][i] = "absent"

StageNo(stage) ==
    CASE stage = "row" -> 1
      [] stage = "public" -> 2
      [] stage = "boundary" -> 3
      [] stage = "graphs" -> 4
      [] stage = "analysis" -> 5

\* C3: the stage calls of a run come entry by entry in list order; the calls of
\* one entry are RoW download, public-GPS download, boundary computation, graph
\* download, analysis, in that order; a new entry starts only after the analysis
\* of the one before; a run that ends without failure leaves only whole blocks.
C3_StageOrder ==
    /\ \A k \in 1..Len(trace) :
          /\ trace[k][1] \in 1..Len(authorities)
          /\ trace[k][1] <= idx
          /\ IF k = 1
               THEN trace[k][2] = "row"
               ELSE IF trace[k][1] = trace[k-1][1]
                      THEN StageNo(trace[k][2]) = StageNo(trace[k-1][2]) + 1
                      ELSE /\ trace[k-1][1] < trace[k][1]
                           /\ trace[k-1][2] = "analysis"
                           /\ trace[k][2] = "row"
    /\ (pc = "done" /\ trace # <<>>) => trace[Len(trace)][2] = "analysis"
    /\ (pc = "loop" /\ trace # <<>>) =>
          trace[Len(trace)][2] = "analysis" /\ trace[Len(trace)][1] < idx

\* C3 witness: a run of two entries ended with both blocks whole.
C3_Witness ==
    /\ pc = "done"
    /\ Len(trace) = 10
    /\ trace[5] = <<1, "analysis">>
    /\ trace[6] = <<2, "row">>

\* The rows of every file, in enumeration order, without those whose latitude
\* and longitude are both zero.
RowsNotBothZero ==
    concat([f \in 1..Len(gpx_points) |->
              SelectSeq(SelectColumns(gpx_to_dataframe(gpx_points[f], f - 1)),
                        LAMBDA r : ~(r.latitude = 0 /\ r.longitude = 0))])

\* C4 (as claimed): the table written holds exactly the rows of the files that
\* do not have both latitude and longitude zero, in order; a row with only one
\* of the two zero is kept.
C4_DropsBothZeroOnly ==
    gps_pc = "written" => all_gps_raw_df = RowsNotBothZero

\* C5: a tile whose OSM query found no matching ways (ValueError) does not end
\* the call: an empty graph is what is being saved for it, the file of every
\* such tile the loop has passed holds the empty graph, and the loop goes on.
C5_EmptyTile ==
    \A i \in Tiles :
        answer[i] = "ValueError" =>
            /\ error # "ValueError"
            /\ IF tile = i
                 THEN /\ pc \in {"graph_save", "graph_saving"}
                      /\ G = "empty"
                 ELSE /\ tile > i
                      /\ disk.graphml[authority_code][i] = "empty"

\* C5 witness: the first tile had no ways, its empty graph is on disk and the
\* loop is querying the next tile.
C5_Witness ==
    /\ pc = "graph_query"
    /\ tile = 1
    /\ answer[0] = "ValueError"
    /\ disk.graphml[authority_code][0] = "empty"

\* C6 (as claimed): a download_row_data call whose GET failed, whose response
\* had a non-success status or whose body is no GPX never writes prefix.csv, and
\* a call issues at most one request.
C6_RowFailuresAbort ==
    /\ pc \in {"row_write", "row_writing"} =>
          /\ row_response.status = 200
          /\ row_response.content = "gpx"
    /\ error = "ConnectionError" => disk.rowcsv[authority_code] = "absent"
    /\ net.get <= Cardinality({k \in 1..Len(trace) : trace[k][2] = "row"})

\* C7 (as claimed): after a failed curl or tar step, download_public_gps_data
\* does not go on to write prefix.csv.
C7_ToolFailureAborts ==
    toolFailed => pc \notin {"pub_write", "pub_writing"}

\* C8: once a step of entry k has raised, the run is over at entry k: no later
\* statement runs, no stage is called, and the disk stays as the failing step
\* found it.
C8_FailureEndsBatch ==
    [][ error' # "none" =>
          /\ pc' = "failed"
          /\ idx' = idx
          /\ trace' = trace
          /\ disk' = disk
      ]_vars

\* C8 witness: the first of two entries failed after its RoW table was written;
\* the table is still there and no stage of the second entry was called.
C8_Witness ==
    /\ pc = "failed"
    /\ idx = 1
    /\ Len(authorities) = 2
    /\ error = "GeocodeError"
    /\ disk.rowcsv[authority_code] = "complete"
    /\ \A k \in 1..Len(trace) : trace[k][1] = 1

RowBody == {"row_get", "row_save", "row_convert", "row_write"}
PubBody == {"pub_curl", "pub_tar", "pub_rm", "pub_convert", "pub_write"}
GraphBody == {"graph_query", "graph_save"}

BoundaryCalls == Cardinality({k \in 1..Len(trace) : trace[k][2] = "boundary"})

\* C9 (as claimed): the boundary step of an entry whose boundary an earlier run
\* computed (a tile file of the authority is on disk) issues no geocoding query.
C9_BoundaryCached ==
    [][ ( pc = "boundary" /\ disk.graphml[authority_code][0] # "absent" )
        => ( Killed' \/ net'.geocode = net.geocode )
      ]_vars

\* C9 (amended): the RoW, public-GPS and graph downloads run their body only
\* over an absent target; get_graph_boundary keeps nothing on disk and issues one
\* geocoding query on every call.
C9_ThreeStepsCached ==
    /\ pc \in RowBody => disk.rowcsv[authority_code] = "absent"
    /\ pc \in PubBody => disk.pubcsv[region].st = "absent"
    /\ pc \in GraphBody => disk.graphml[authority_code][tile] = "absent"
    /\ net.geocode = BoundaryCalls - (IF pc = "boundary" THEN 1 ELSE 0)

\* C9 witness: a later run has computed the boundary again, by a new query,
\* with tile files of the authority already on disk.
C9_Witness ==
    /\ pc = "graph_check"
    /\ runs > 1
    /\ net.geocode = 1
    /\ \A i \in Tiles : disk.graphml[authority_code][i] # "absent"

\* C10: a truncated target left on disk is taken for a complete one: the call
\* (the tile) that finds it returns at the check and leaves it truncated.
C10_TruncatedIsSkipped ==
    [][ /\ ( pc = "row_check" /\ disk.rowcsv[authority_code] = "partial" )
            => ( disk' = disk /\ pc' \in {"pub_check", "killed"} )
        /\ ( pc = "pub_check" /\ disk.pubcsv[region].st = "partial" )
            => ( disk' = disk /\ pc' \in {"boundary", "killed"} )
        /\ ( pc = "graph_check" /\ tile < graph_boundary
                                /\ disk.graphml[authority_code][tile] = "partial" )
            => ( disk' = disk /\ ( Killed' \/ (pc' = "graph_check" /\ tile' = tile + 1) ) )
      ]_vars

\* C10 witness: a run killed in the middle of a tile's save left a truncated
\* tile file; a later run passed the tile and went on to the analysis with the
\* file still truncated.
C10_Witness ==
    /\ pc = "analysis"
    /\ runs > 1
    /\ \E i \in Tiles : disk.graphml[authority_code][i] = "partial"

\* C11: the existence check does not arbitrate between two invocations: an
\* invocation at its check with the target absent goes on to the download,
\* wherever the other invocation is, so both can be downloading and writing
\* the same target at once.
C11_CheckDoesNotArbitrate ==
    [][ \A p \in Procs :
          /\ ( inv[p].pc = "row_check" /\ inv'[p] # inv[p]
                  /\ disk.rowcsv[prefix] = "absent" )
                => inv'[p].pc = "row_get"
          /\ ( inv[p].pc = "graph_check" /\ inv'[p] # inv[p]
                  /\ inv[p].tile < NumTiles
                  /\ disk.graphml[prefix][inv[p].tile] = "absent" )
                => inv'[p].pc = "graph_query" ]_vars

\* C11 witness: both invocations found the target absent, both downloaded, and
\* both have the same csv open for writing; or both are writing the same tile.
C11_Witness ==
    \/ /\ \A p \in Procs : inv[p].pc = "row_writing"
       /\ net.get = Cardinality(Procs)
       /\ disk.rowcsv[prefix] = "partial"
    \/ /\ \A p \in Procs : inv[p].pc = "graph_saving" /\ inv[p].tile = 0
       /\ net.osm = Cardinality(Procs)

\* C12: the public-GPS table of a region holds points of the GPX files of that
\* region's own archive only, never of files an earlier region's extraction
\* left under the extraction path.
C12_OwnArchiveOnly ==
    \A r \in Regions :
        disk.pubcsv[r].st # "absent" => disk.pubcsv[r].from \subseteq {r}

\* The stage the run is in: the last stage called.
LastStage == IF trace = <<>> THEN "none" ELSE trace[Len(trace)][2]

TileLoop == {"graph_check", "graph_query", "graph_save", "graph_saving"}

\* C14: download_graphs resumes per tile: it queries OSM for a tile only when
\* the file of that tile is missing as the loop reaches it, the file of every
\* tile the loop has passed exists (found there, or written by this call from
\* its own query), and when the call has returned the file of every tile of
\* the boundary list exists.
C14_ResumesPerTile ==
    /\ pc = "graph_query" => disk.graphml[authority_code][tile] = "absent"
    /\ pc \in TileLoop =>
          \A i \in Tiles :
              /\ i < tile => disk.graphml[authority_code][i] # "absent"
              /\ (i < tile /\ answer[i] = "ways") => disk.graphml[authority_code][i] = "graph"
              /\ i > tile => answer[i] = "none"
    /\ pc = "analysis" =>
          \A i \in 0..(graph_boundary - 1) : disk.graphml[authority_code][i] # "absent"

\* C14 witness: a later run on a disk where an earlier run left the first tile
\* and not the last: the call found the first, queried the last, and is at the
\* loop head about to return.
C14_Witness ==
    /\ runs > 1
    /\ pc = "graph_check"
    /\ tile = graph_boundary
    /\ tile = NumTiles
    /\ answer[0] = "none"
    /\ answer[NumTiles - 1] # "none"
    /\ \A i \in Tiles : disk.graphml[authority_code][i] # "absent"

\* The entries of the batch list the run has called the stages for.
Called == {j \in 1..Len(authorities) : \E k \in 1..Len(trace) : trace[k] = <<j, "row">>}

\* C15: in one run the archive of a region is downloaded at most once: the
\* public-GPS call of an entry is in its download only if no earlier entry the
\* run has worked on has the same region; a finished run has issued at most one
\* curl per region of the entries it worked on, and, started on a disk with no
\* data, exactly one curl per region, one RoW request per entry and one OSM
\* query per tile of each entry.
C15_RegionDownloadedOnce ==
    /\ pc \in PubBody \union {"pub_writing"} =>
          \A j \in Called : j < idx => authorities[j].region # region
    /\ pc = "done" =>
          /\ net.curl <= Cardinality({authorities[j].region : j \in Called})
          /\ runs = 1 =>
                /\ net.curl = Cardinality({authorities[j].region : j \in Called})
                /\ net.get = Cardinality(Called)
                /\ net.osm = NumTiles * Cardinality(Called)

\* C15 witness: a first run that finished, having worked on two entries of the
\* same region: one archive download, two RoW downloads.
C15_Witness ==
    /\ pc = "done"
    /\ runs = 1
    /\ \E j, k \in Called : j # k /\ authorities[j].region = authorities[k].region
    /\ net.curl = 1
    /\ net.get = 2

====
